---- MODULE Spec2Model ----
(***************************************************************************)
(* Model of the ESOVDB <-> Zotero synchronisation proxy.                   *)
(*                                                                         *)
(*   src/esovdb.js : listVideos (cached, paginated retrieval from the      *)
(*                   Airtable "Videos" table), processUpdates              *)
(*   src/zotero.js : formatItems, postItems, syncItems                     *)
(*                                                                         *)
(* Conventions.  JavaScript's '' / undefined / null for a missing scalar   *)
(* is the number 0 for Zotero keys and versions (0 is falsy, like '').     *)
(* An optional value (req.params.pg, a query parameter, options.maxRecords,*)
(* options.filterByFormula) is a sequence: <<>> when missing, <<v>> when   *)
(* present.  Query parameter values are the numeric strings "0", "1", ...  *)
(* written as naturals; a date string is the number Date.parse gives it.   *)
(* The rows of the Videos table keep a fixed order (the view's sort).      *)
(***************************************************************************)
EXTENDS Integers, Sequences, FiniteSets, TLC

\* ------------------------------------------------------------- bounds
\* Number of records in the Source "Videos" table.
NumRecs == 4
\* Largest page number a client puts in the route /videos/list/:pg.
MaxPage == 2
\* Values clients give the pageSize and maxRecords query parameters.
PageSizes == {1, 2}
MaxRecordsVals == {1, 3}
\* Values clients give createdAfter / modifiedAfter (parsed timestamps).
Dates == {1, 2}
\* The two HTTP clients; each keeps asking for one URL.
Clients == {"a", "b"}

\* Rows in the responses clients pass on to syncItems, at most.
MaxSyncRows == 2
\* Write requests Target answers with a new library version, at most.
MaxWrites == 2

\* Videos in the short bodies an Airtable automation posts to /sync.
MaxPostedRows == 3
\* Latest time on the clock, in milliseconds.
MaxTime == 201
\* createCollection requests Target is sent, at most.
MaxCollections == 2

\* ------------------------------------------------------ program constants
\* req.query.pageSize = 100 when missing or not a number.
DefaultPageSize == 100
\* updates.splice(0, 50) / items.splice(0, 50)
ChunkSize == 50
\* airtableRateLimit = 1005 / 5
MinTime == 201

\* ------------------------------------------------------------- helpers
Min(a, b) == IF a < b THEN a ELSE b

RecIds == 1 .. NumRecs

\* The view 'All Online Videos' sorted by Modified, descending.
SourceOrder == [i \in 1 .. NumRecs |-> i]

\* Created / Modified timestamps of the records (record 1 is the oldest
\* created and the latest modified).
Created(r) == r
Modified(r) == NumRecs + 1 - r

\* --------------------------------------------------------- request URLs
Param(n, v) == [name |-> n, value |-> v]

PagingParams ==
    {Param("pageSize", v) : v \in PageSizes}
        \cup {Param("maxRecords", v) : v \in MaxRecordsVals}

DateParams ==
    {Param("createdAfter", v) : v \in Dates}
        \cup {Param("modifiedAfter", v) : v \in Dates}

\* Query strings of at most two parameters with distinct names, in the
\* order the client wrote them.
QueriesOver(P) ==
    {<<>>} \cup {<<p>> : p \in P}
        \cup {pq \in P \X P : pq[1].name # pq[2].name}

\* The route parameter: /videos/list or /videos/list/<pg>.
Paths == {<<>>} \cup {<<k>> : k \in 0 .. MaxPage}

\* req.url: the path and the raw query string.  Clients page through the
\* table with pageSize / maxRecords, or filter the whole table by date.
Urls ==
    [path : Paths, query : QueriesOver(PagingParams)]
        \cup [path : {<<>>}, query : QueriesOver(DateParams)]

\* req.query.<name>: <<>> when the parameter is not in the query string.
QueryValue(q, n) ==
    IF \E i \in 1 .. Len(q) : q[i].name = n
    THEN <<q[CHOOSE i \in 1 .. Len(q) : q[i].name = n].value>>
    ELSE <<>>

\* ------------------------------------------------ listVideos: parsing
\* req.params.pg = !pg || !Number(pg) || +pg < 0 ? null : +pg - 1
ParsePg(path) ==
    IF path = <<>> \/ path[1] = 0 \/ path[1] < 0 THEN <<>> ELSE <<path[1] - 1>>

\* JavaScript !x for an optional number: null and 0 are both falsy.
Falsy(opt) == opt = <<>> \/ opt[1] = 0

\* if (!pageSize || !Number(pageSize || pageSize > 100)) pageSize = 100
ParsePageSize(q) ==
    LET raw == QueryValue(q, "pageSize")
    IN  IF Falsy(raw) THEN DefaultPageSize ELSE raw[1]

\* (Variant: maxRecords is dropped whatever the client gave.)
ParseMaxRecordsNever(q) == <<>>

\* if (!Number(maxRecords || maxRecords == 0)) maxRecords = null
ParseMaxRecords(q) ==
    LET raw == QueryValue(q, "maxRecords")
    IN  IF Falsy(raw) THEN <<>> ELSE raw

\* if (maxRecords && +maxRecords < +pageSize) pageSize = maxRecords
ClampPageSize(ps, mr) ==
    IF mr # <<>> /\ mr[1] < ps THEN mr[1] ELSE ps

\* modifiedAfter / createdAfter: set when present and Date.parse(..) > 0
ParseDate(q, n) ==
    LET raw == QueryValue(q, n)
    IN  IF raw # <<>> /\ raw[1] > 0 THEN raw ELSE <<>>

\* options.filterByFormula: the Modified predicate is assigned first, the
\* Created predicate is then assigned over it.
\* (Variant: the two assignments in the other order.)
FilterModifiedWins(q) ==
    LET modifiedAfter == ParseDate(q, "modifiedAfter")
        createdAfter == ParseDate(q, "createdAfter")
        f1 == IF createdAfter # <<>> THEN <<"Created", createdAfter[1]>> ELSE <<>>
        f2 == IF modifiedAfter # <<>> THEN <<"Modified", modifiedAfter[1]>> ELSE f1
    IN  f2

\* options.filterByFormula as listVideos builds it.
FilterByFormula(q) ==
    LET modifiedAfter == ParseDate(q, "modifiedAfter")
        createdAfter == ParseDate(q, "createdAfter")
        f1 == IF modifiedAfter # <<>> THEN <<"Modified", modifiedAfter[1]>> ELSE <<>>
        f2 == IF createdAfter # <<>> THEN <<"Created", createdAfter[1]>> ELSE f1
    IN  f2

\* The options object handed to base('Videos').select.
Options(q) ==
    [pageSize |-> ClampPageSize(ParsePageSize(q), ParseMaxRecords(q)),
     maxRecords |-> ParseMaxRecords(q),
     filterByFormula |-> FilterByFormula(q)]

\* The query with its parameters put in alphabetical order of their names.
SortedQuery(q) ==
    SelectSeq(q, LAMBDA p : p.name = "createdAfter")
        \o SelectSeq(q, LAMBDA p : p.name = "maxRecords")
        \o SelectSeq(q, LAMBDA p : p.name = "modifiedAfter")
        \o SelectSeq(q, LAMBDA p : p.name = "pageSize")

\* (Variants: a key that leaves the page of the route out, and a key over
\* the query with its parameters sorted.)
CachePathNoPage(url) == <<".cache", [url EXCEPT !.path = <<>>], ".json">>

CachePathSorted(url) == <<".cache", [url EXCEPT !.query = SortedQuery(@)], ".json">>

\* cachePath = `.cache${req.url}.json`

CachePath(url) == <<".cache", url, ".json">>

\* ------------------------------------------------------------- state
VARIABLES
    srcKey,     \* Source: 'Zotero Key' of each Videos record (0: empty)
    srcVer,     \* Source: 'Zotero Version' of each Videos record (0: empty)
    cache,      \* ResponseCache: cache path -> stored result set
    clientUrl,  \* the URL each client requests
    req,        \* the listVideos request in flight (phase "idle": none)
    last,       \* the most recently finished listVideos request
    missResp,   \* cache path -> body the caller of the writing request got
    keyUse,     \* cache path -> URLs whose requests read or wrote it
    zot,        \* Target: the library's items, indexed by item key
    libVer,     \* Target: the library version
    sync,       \* the syncItems pass in flight (phase "idle": none)
    updates,    \* Source update requests dispatched and not yet answered
    syncLast,   \* the most recently finished syncItems pass
    now,        \* the clock, in milliseconds
    srcStarts,  \* start times of the last two calls made to Source
    dispatched, \* the update requests of the last processUpdates call, in order
    upd,        \* the most recently answered updateVideos request
    failedFile, \* failed.json: <<>> when not written yet, else <<its content>>
    colls,      \* Target: series collections created, and the create requests
    fmt,        \* syncItems: the formatItems calls of the pass in flight
    tally       \* syncItems: totalSuccessful / totalUnchanged / totalFailed, the
                \* chunks sent to Target in the current pass and its answers

listVars == <<cache, clientUrl, req, last, missResp, keyUse>>

passVars == <<dispatched, upd, failedFile, colls, fmt, tally>>

syncVars == <<zot, libVer, sync, updates, syncLast, passVars>>

vars == <<srcKey, srcVer, listVars, syncVars, now, srcStarts>>

\* f with key k set to v (k is added to the domain when new).
Put(f, k, v) == [x \in DOMAIN f \cup {k} |-> IF x = k THEN v ELSE f[x]]

EmptyMap == [x \in {} |-> <<>>]

\* ------------------------------------------------- Source (Airtable)
\* IS_AFTER({Modified}, ..) / IS_AFTER(CREATED_TIME(), ..)
Matches(f, r) ==
    \/ f = <<>>
    \/ f # <<>> /\ f[1] = "Modified" /\ Modified(r) > f[2]
    \/ f # <<>> /\ f[1] = "Created" /\ Created(r) > f[2]

\* The records select(options) yields over all its pages.
ResultIds(opts) ==
    LET filtered == SelectSeq(SourceOrder, LAMBDA r : Matches(opts.filterByFormula, r))
    IN  IF opts.maxRecords # <<>>
        THEN SubSeq(filtered, 1, Min(opts.maxRecords[1], Len(filtered)))
        ELSE filtered

\* The row listVideos builds from a record (the token and the id; the
\* other projected fields do not change and are left out).
Row(r) == [recordId |-> r, zoteroKey |-> srcKey[r], zoteroVersion |-> srcVer[r]]

Rows(ids) == [i \in 1 .. Len(ids) |-> Row(ids[i])]

\* ResponseCache.
ReadCacheWithPath(path) == IF path \in DOMAIN cache THEN <<cache[path]>> ELSE <<>>

WriteCacheWithPath(path, data) == Put(cache, path, data)

\* The records whose key and version are in Source (back-synced).
Tokened == {r \in RecIds : srcKey[r] # 0 /\ srcVer[r] # 0}

\* rateLimiter.wrap(x) is handed the value of a call that has been made
\* already (select(..).eachPage(..), update(..)) and builds a function that
\* nobody calls: a call to Source starts when the code reaches it.  The
\* start times of the last two calls, after n more calls start now.
Stamp(n) ==
    IF n = 0 THEN srcStarts
    ELSE IF n = 1
         THEN IF srcStarts = <<>> THEN <<now>>
              ELSE <<srcStarts[Len(srcStarts)], now>>
         ELSE <<now, now>>

\* ------------------------------------------------------- listVideos
\* req.tokened / last.tokened / sync.tokened: the records that were
\* back-synced already when the listVideos request arrived.
Idle ==
    [phase |-> "idle", client |-> "a", url |-> [path |-> <<>>, query |-> <<>>],
     pg |-> 0, data |-> <<>>, offset |-> 0, sent |-> <<>>, calls |-> 0,
     tokened |-> {}]

NoRequest ==
    [done |-> FALSE, url |-> [path |-> <<>>, query |-> <<>>], hit |-> FALSE,
     sent |-> <<>>, calls |-> 0, failed |-> FALSE, pages |-> 0, synced |-> FALSE,
     tokened |-> {}]

Response(status, body) == [status |-> status, body |-> body]

\* The response the HTTP caller receives: the first one sent.
Received(r) == Head(r.sent)

\* (Variant: a hit that answers from the cache and starts the walk too.)
ListVideosHitWalks(c) ==
    LET url == clientUrl[c]
        cachePath == CachePath(url)
    IN  /\ req.phase = "idle"
        /\ ReadCacheWithPath(cachePath) # <<>>
        /\ req' = [Idle EXCEPT !.phase = "fetching", !.client = c, !.url = url,
                                !.sent = <<Response(200, cache[cachePath])>>,
                                !.calls = 1]
        /\ keyUse' = Put(keyUse, cachePath,
                         (IF cachePath \in DOMAIN keyUse THEN keyUse[cachePath] ELSE {})
                             \cup {url})
        /\ srcStarts' = Stamp(1)
        /\ UNCHANGED <<srcKey, srcVer, cache, clientUrl, last, missResp, syncVars, now>>

\* Cache hit: res.status(200).send(cachedResult), nothing else.
ListVideosHit(c) ==
    LET url == clientUrl[c]
        cachePath == CachePath(url)
    IN  /\ req.phase = "idle"
        /\ ReadCacheWithPath(cachePath) # <<>>
        /\ last' = [done |-> TRUE, url |-> url, hit |-> TRUE,
                    sent |-> <<Response(200, cache[cachePath])>>,
                    calls |-> 0, failed |-> FALSE, pages |-> 0, synced |-> FALSE,
                    tokened |-> Tokened]
        /\ keyUse' = Put(keyUse, cachePath,
                         (IF cachePath \in DOMAIN keyUse THEN keyUse[cachePath] ELSE {})
                             \cup {url})
        /\ UNCHANGED <<srcKey, srcVer, cache, clientUrl, req, missResp, syncVars,
                       now, srcStarts>>

\* Cache miss: select(options).eachPage(page, done) issues the first
\* page request at once.
ListVideosMiss(c) ==
    LET url == clientUrl[c]
        cachePath == CachePath(url)
    IN  /\ req.phase = "idle"
        /\ ReadCacheWithPath(cachePath) = <<>>
        /\ req' = [Idle EXCEPT !.phase = "fetching", !.client = c, !.url = url,
                                !.calls = 1, !.tokened = Tokened]
        /\ keyUse' = Put(keyUse, cachePath,
                         (IF cachePath \in DOMAIN keyUse THEN keyUse[cachePath] ELSE {})
                             \cup {url})
        /\ srcStarts' = Stamp(1)
        /\ UNCHANGED <<srcKey, srcVer, cache, clientUrl, last, missResp, syncVars, now>>

\* (Variant: every page is accumulated, whatever the page index.)
AccumulatesAll(pgParam, pg) == TRUE

\* if (!req.params.pg || pg == req.params.pg): the page is accumulated.

Accumulates(pgParam, pg) == Falsy(pgParam) \/ pg = pgParam[1]

\* if (pg == req.params.pg): the response is sent (0 == null is false).
RespondsAtPage(pgParam, pg) == pgParam # <<>> /\ pg = pgParam[1]

\* (Variant: done writes the cache whether or not err is set.)
DoneWritesAlways(err, path, data) == WriteCacheWithPath(path, data)

\* function done(err): on error 400 and no cache write; otherwise the
\* cache write and then the 200.

DoneCache(err, path, data) == IF err THEN cache ELSE WriteCacheWithPath(path, data)

\* (Variant: done answers 200 whether or not err is set.)
DoneSentOkAlways(err, sent, data) == Append(sent, Response(200, data))

DoneSent(err, sent, data) ==
    IF err THEN Append(sent, Response(400, <<>>))
    ELSE Append(sent, Response(200, data))

\* The request is over: its summary is kept and no request is in flight.
Finish(err, sent, data, calls, pages) ==
    LET cachePath == CachePath(req.url)
        sent1 == DoneSent(err, sent, data)
    IN  /\ cache' = DoneCache(err, cachePath, data)
        /\ missResp' = IF cache' # cache
                       THEN Put(missResp, cachePath, Head(sent1).body)
                       ELSE missResp
        /\ last' = [done |-> TRUE, url |-> req.url, hit |-> FALSE, sent |-> sent1,
                    calls |-> calls, failed |-> err, pages |-> pages, synced |-> FALSE,
                    tokened |-> req.tokened]
        /\ req' = Idle

\* function page(records, fetchNextPage): a page request succeeded.  When
\* it was the last page, fetchNextPage() calls done(null) in the same turn.
Page ==
    /\ req.phase = "fetching"
    /\ LET opts == Options(req.url.query)
           pgParam == ParsePg(req.url.path)
           ids == ResultIds(opts)
           upto == Min(req.offset + opts.pageSize, Len(ids))
           records == Rows(SubSeq(ids, req.offset + 1, upto))
           data1 == IF Accumulates(pgParam, req.pg)
                    THEN req.data \o records ELSE req.data
           sent1 == IF Accumulates(pgParam, req.pg) /\ RespondsAtPage(pgParam, req.pg)
                    THEN Append(req.sent, Response(200, data1)) ELSE req.sent
       IN  IF upto < Len(ids)
           THEN /\ req' = [req EXCEPT !.pg = @ + 1, !.data = data1, !.sent = sent1,
                                      !.offset = upto, !.calls = @ + 1]
                /\ srcStarts' = Stamp(1)
                /\ UNCHANGED <<cache, last, missResp>>
           ELSE /\ Finish(FALSE, sent1, data1, req.calls, req.pg + 1)
                /\ UNCHANGED srcStarts
    /\ UNCHANGED <<srcKey, srcVer, clientUrl, keyUse, syncVars, now>>

\* A page request failed: eachPage calls done(err).
FetchError ==
    /\ req.phase = "fetching"
    /\ Finish(TRUE, req.sent, req.data, req.calls, req.pg)
    /\ UNCHANGED <<srcKey, srcVer, clientUrl, keyUse, syncVars, now, srcStarts>>

\* ------------------------------------------------------ processUpdates
\* (Variant: the batch is sent as one request, whatever its size.)
ChunksOfWhole(items) == IF items = <<>> THEN <<>> ELSE <<items>>

\* RECURSIVE: the chunks updates.splice(0, 50) cuts off, in order.
RECURSIVE ChunksOf(_)
ChunksOf(items) ==
    IF items = <<>> THEN <<>>
    ELSE <<SubSeq(items, 1, Min(ChunkSize, Len(items)))>>
             \o ChunksOf(SubSeq(items, Min(ChunkSize, Len(items)) + 1, Len(items)))

\* processUpdates: one update request per chunk is dispatched at once;
\* nothing waits for its answer.
ProcessUpdates(videos) ==
    updates \cup {ChunksOf(videos)[i] : i \in 1 .. Len(ChunksOf(videos))}

\* The requests of one processUpdates call in the order its loop makes
\* them; each one is base('Videos').update(chunk).
Dispatched(videos) ==
    [i \in 1 .. Len(ChunksOf(videos)) |->
        [table |-> "Videos", records |-> ChunksOf(videos)[i]]]

\* updateTable(items, table): processUpdates(items, table) has no second
\* parameter; it returns the array it was given, which is not empty.
UpdateTable(items, table) ==
    /\ updates' = ProcessUpdates(items)
    /\ dispatched' = Dispatched(items)
    /\ srcStarts' = Stamp(Len(ChunksOf(items)))

\* Source answers an update request: the records are patched.  A request
\* that names a record the Videos table does not have is rejected whole.
ApplyUpdate(u) ==
    /\ u \in updates
    /\ \A i \in 1 .. Len(u) : u[i].id \in RecIds
    /\ updates' = updates \ {u}
    /\ srcKey' = [r \in RecIds |->
                    IF \E i \in 1 .. Len(u) : u[i].id = r
                    THEN u[CHOOSE i \in 1 .. Len(u) : u[i].id = r].key
                    ELSE srcKey[r]]
    /\ srcVer' = [r \in RecIds |->
                    IF \E i \in 1 .. Len(u) : u[i].id = r
                    THEN u[CHOOSE i \in 1 .. Len(u) : u[i].id = r].version
                    ELSE srcVer[r]]
    /\ UNCHANGED <<listVars, zot, libVer, sync, syncLast, passVars, now, srcStarts>>

\* The update request fails; its promise is held by nobody.
FailUpdate(u) ==
    /\ u \in updates
    /\ updates' = updates \ {u}
    /\ UNCHANGED <<srcKey, srcVer, listVars, zot, libVer, sync, syncLast, passVars,
                   now, srcStarts>>

\* -------------------------------------------------------- updateVideos
NoUpdate == [done |-> FALSE, status |-> 0, body |-> <<>>]

\* updateVideos: processUpdates(req.body) returns req.body as soon as its
\* loop has made the update calls, and the 200 carries it.
UpdateVideos(body) ==
    /\ Len(body) > 0
    /\ UpdateTable(body, "Videos")
    /\ upd' = [done |-> TRUE, status |-> 200, body |-> body]
    /\ UNCHANGED <<srcKey, srcVer, listVars, zot, libVer, sync, syncLast,
                   failedFile, colls, fmt, tally, now>>

\* Time passes.
Tick(d) ==
    /\ now + d <= MaxTime
    /\ now' = now + d
    /\ UNCHANGED <<srcKey, srcVer, listVars, syncVars, srcStarts>>

\* ------------------------------------------------------------ syncItems
NoSync ==
    [phase |-> "idle", operation |-> "update", items |-> <<>>, chunk |-> <<>>,
     posted |-> <<>>, tokened |-> {}]

NoPass == [done |-> FALSE, status |-> 0, body |-> <<>>, notified |-> <<>>]

NoFormat == [videos |-> <<>>, waiting |-> {}, creating |-> {}]

NoTally ==
    [operation |-> "update", videos |-> <<>>, items |-> <<>>, chunks |-> <<>>,
     answered |-> 0,
     sleeps |-> 0, report |-> <<>>,
     totalSuccessful |-> 0, totalUnchanged |-> 0, totalFailed |-> 0]

NoCollections == [created |-> <<>>, requests |-> <<>>, calls |-> <<>>]

\* (Variant: every parent is taken for the series collection.)
CollectionsAny(parent) == <<"HYQEFRGR">>

\* collections.get(parent): <<key>>, or <<>> for undefined.
Collections(parent) ==
    IF parent = "series" THEN <<"HYQEFRGR">>
    ELSE IF parent = "topics" THEN <<"EGB8TQZ8">>
         ELSE <<>>

\* createCollection(name, parent): the requests it sends to Target, one
\* POST collections when the parent is known; otherwise it throws before
\* any request, catches and logs the error, and returns undefined.
CollectionRequest(name, parent) ==
    IF Collections(parent) # <<>>
    THEN <<[name |-> name, parentCollection |-> Collections(parent)[1]]>>
    ELSE <<>>

\* Target's collections after a call of createCollection(name, parent).
CreateCollectionCall(c, name, parent) ==
    [c EXCEPT !.calls = Append(@, [name |-> name, parent |-> parent]),
              !.requests = @ \o CollectionRequest(name, parent)]

\* archiveLocation: the URL of the record's Airtable view, ending in the
\* record id.
ArchiveLocation(recordId) ==
    <<"https://airtable.com/tbl3WP689vHdmg7P2/viwD9Tpr6JAAr97CW/", recordId>>

\* item.data.archiveLocation.match(/rec[\w]{14}$/): <<id>> when the URL ends
\* in a record id, <<>> (null) when it does not (0: the video had no
\* recordId).
MatchRecordId(location) ==
    IF location[2] # 0 THEN <<location[2]>> ELSE <<>>

\* ---------------------------------------------------------------- util
\* JavaScript's undefined where a string is expected (an index past the end
\* of an array).
Undefined == "<undefined>"

\* !s for a string or undefined.
FalsyString(s) == s \in {"", Undefined}

\* '' + s
Concat(s) == IF s = Undefined THEN "undefined" ELSE s

\* packageAuthors: first.map((f, i) => ({ firstName: f, lastName: last[i] }))
PackageAuthors(firstNames, lastNames) ==
    [i \in 1 .. Len(firstNames) |->
        [firstName |-> firstNames[i],
         lastName |-> IF i <= Len(lastNames) THEN lastNames[i] ELSE Undefined]]

\* presenter.firstName || '' + presenter.lastName || '': + binds tighter
\* than ||.
FreeTextName(presenter) ==
    IF ~FalsyString(presenter.firstName) THEN presenter.firstName
    ELSE IF Concat(presenter.lastName) # "" THEN Concat(presenter.lastName)
         ELSE ""

\* formatItems: `presenters`, the value of payload.creators.  With
\* presenters it is an array of creators; without, it is one creator object
\* that is not in an array (isArray says which).
Creators(firstNames, lastNames) ==
    LET presenters == PackageAuthors(firstNames, lastNames)
    IN  IF Len(presenters) > 0
        THEN [isArray |-> TRUE,
              value |-> [i \in 1 .. Len(presenters) |->
                           IF FalsyString(presenters[i].firstName)
                                \/ FalsyString(presenters[i].lastName)
                           THEN [creatorType |-> "contributor",
                                 name |-> FreeTextName(presenters[i])]
                           ELSE [creatorType |-> "contributor",
                                 firstName |-> presenters[i].firstName,
                                 lastName |-> presenters[i].lastName]]]
        ELSE [isArray |-> FALSE,
              value |-> <<[creatorType |-> "contributor", name |-> "Unknown"]>>]

\* RECURSIVE: padString.repeat(..).substr(0, n) for padString '0'.
RECURSIVE Zeros(_)
Zeros(n) == IF n <= 0 THEN "" ELSE "0" \o Zeros(n - 1)

\* pad(string, length): zeros are put before the string up to the length.
Pad(n, length) ==
    IF length > Len(ToString(n)) THEN Zeros(length - Len(ToString(n))) \o ToString(n)
    ELSE ToString(n)

\* RECURSIVE: parts.join(':')
RECURSIVE Join(_)
Join(parts) ==
    IF parts = <<>> THEN ""
    ELSE IF Len(parts) = 1 THEN parts[1].str
         ELSE parts[1].str \o ":" \o Join(Tail(parts))

\* formatDuration: (duration < 60 ? '0:' : '') + [hours, minutes (padded
\* when duration > 3600), padded seconds].filter((i) => +i !== 0).join(':').
\* str is the part as join writes it, num is +i.
FormatDuration(duration) ==
    LET hours == duration \div 3600
        minutes == (duration % 3600) \div 60
        seconds == duration % 60
        parts == <<[str |-> ToString(hours), num |-> hours],
                   [str |-> IF duration > 3600 THEN Pad(minutes, 2)
                            ELSE ToString(minutes),
                    num |-> minutes],
                   [str |-> Pad(seconds, 2), num |-> seconds]>>
    IN  (IF duration < 60 THEN "0:" ELSE "")
            \o Join(SelectSeq(parts, LAMBDA i : i.num # 0))

\* (Variant: no payload carries the key and the version.)
FormatItemsNoToken(video) ==
    [archiveLocation |-> ArchiveLocation(video.recordId), key |-> 0, version |-> 0,
     creators |-> Creators(video.presentersFirstName, video.presentersLastName),
     runningTime |-> FormatDuration(video.runningTime)]

\* formatItems: the payload of a video.  key / version are set only when
\* the video has both (0: the property is not in the payload); the record
\* id travels in archiveLocation.
FormatItems(video) ==
    [archiveLocation |-> ArchiveLocation(video.recordId),
     key |-> IF video.zoteroKey # 0 /\ video.zoteroVersion # 0
             THEN video.zoteroKey ELSE 0,
     version |-> IF video.zoteroKey # 0 /\ video.zoteroVersion # 0
                 THEN video.zoteroVersion ELSE 0,
     creators |-> Creators(video.presentersFirstName, video.presentersLastName),
     runningTime |-> FormatDuration(video.runningTime)]

\* if (video.series) { if (video.zoteroSeries) .. else createCollection }
\* (the rows of listVideos are modelled without their series).
NeedsCollection(video) ==
    /\ "series" \in DOMAIN video
    /\ video.series # 0
    /\ video.zoteroSeries = 0

\* syncItems up to the first answer it waits for.  `named` says whether the
\* videos have the presentersFirstName / presentersLastName arrays
\* formatItems reads; without them packageAuthors throws, the catch logs
\* the error and the pass ends with no response.  A formatItems call waits
\* for nothing unless it has to create the collection of a series.
StartPass(videos, operation, named, tokened) ==
    IF named
    THEN LET items == [i \in 1 .. Len(videos) |-> FormatItems(videos[i])]
             waiting == {i \in 1 .. Len(videos) : NeedsCollection(videos[i])}
         IN  /\ sync' = [phase |-> IF waiting = {} THEN "posting" ELSE "formatting",
                         operation |-> operation, items |-> items,
                         chunk |-> <<>>, posted |-> <<>>, tokened |-> tokened]
             /\ fmt' = [videos |-> videos, waiting |-> waiting, creating |-> {}]
             /\ tally' = [NoTally EXCEPT !.operation = operation, !.videos = videos,
                                         !.items = items]
             /\ UNCHANGED syncLast
    ELSE /\ sync' = NoSync
         /\ fmt' = NoFormat
         /\ tally' = [NoTally EXCEPT !.operation = operation, !.videos = videos]
         /\ syncLast' = [NoPass EXCEPT !.done = TRUE]

\* A row of listVideos to which the client has added what formatItems
\* reads and the row does not have: the presenter arrays and the running
\* time in seconds.
Named(row) ==
    [recordId |-> row.recordId, zoteroKey |-> row.zoteroKey,
     zoteroVersion |-> row.zoteroVersion,
     presentersFirstName |-> <<"Jane">>, presentersLastName |-> <<"Doe">>,
     runningTime |-> 2722]

\* POST /sync with the rows of a 200 response of listVideos that no pass
\* has used yet.
SyncItems(operation, named) ==
    /\ sync.phase = "idle"
    /\ last.done /\ ~last.synced
    /\ Received(last).status = 200
    /\ Received(last).body # <<>>
    /\ last' = [last EXCEPT !.synced = TRUE]
    /\ StartPass(IF named
                 THEN [i \in 1 .. Len(Received(last).body) |->
                          Named(Received(last).body[i])]
                 ELSE Received(last).body,
                 operation, named, last.tokened)
    /\ UNCHANGED <<srcKey, srcVer, cache, clientUrl, req, missResp, keyUse,
                   zot, libVer, updates, dispatched, upd, failedFile, colls,
                   now, srcStarts>>

\* POST /sync with videos an Airtable automation sends (they have the
\* presenter arrays, and may have series / zoteroSeries / seriesId).
SyncPosted(videos, operation) ==
    /\ sync.phase = "idle"
    /\ StartPass(videos, operation, TRUE, {})
    /\ UNCHANGED <<srcKey, srcVer, listVars, zot, libVer, updates, dispatched,
                   upd, failedFile, colls, now, srcStarts>>

\* formatItems of the next video that has a series and no zoteroSeries
\* reaches createCollection(video.series, 'series'): the request is sent.
\* queueAsync starts the calls in the order of the videos; the call before
\* may or may not have finished.
CreateCollection ==
    /\ sync.phase = "formatting"
    /\ fmt.waiting # {}
    /\ Len(colls.requests) < MaxCollections
    /\ LET i == CHOOSE j \in fmt.waiting : \A k \in fmt.waiting : j <= k
       IN  /\ fmt' = [fmt EXCEPT !.waiting = @ \ {i}, !.creating = @ \cup {i}]
           /\ colls' = CreateCollectionCall(colls, fmt.videos[i].series, "series")
    /\ UNCHANGED <<srcKey, srcVer, listVars, zot, libVer, sync, updates, syncLast,
                   dispatched, upd, failedFile, tally, now, srcStarts>>

\* Target answers a createCollection request.  Created: the new id is
\* patched to Source with updateTable([{ id: video.seriesId, .. }],
\* 'Series').  Not created, or no answer (createCollection returns
\* undefined and the destructuring throws): the catch logs it.  Either way
\* formatItems returns its payload; after the last one syncItems goes on.
CollectionAnswer(i, created) ==
    /\ sync.phase = "formatting"
    /\ i \in fmt.creating
    /\ fmt' = [fmt EXCEPT !.creating = @ \ {i}]
    /\ IF created
       THEN /\ colls' = [colls EXCEPT !.created = Append(@, fmt.videos[i].series)]
            /\ UpdateTable(<<[id |-> fmt.videos[i].seriesId,
                              key |-> Len(colls.created) + 1, version |-> 0]>>,
                           "Series")
       ELSE UNCHANGED <<colls, updates, dispatched, srcStarts>>
    /\ sync' = IF fmt.waiting = {} /\ fmt.creating = {i}
               THEN [sync EXCEPT !.phase = "posting"] ELSE sync
    /\ UNCHANGED <<srcKey, srcVer, listVars, zot, libVer, syncLast, upd,
                   failedFile, tally, now>>

\* Target (Zotero): what it may answer for one object of a write request.
Outcomes(item) ==
    IF item.key = 0 THEN {"successful", "failed"}
    ELSE IF item.key \in 1 .. Len(zot) /\ zot[item.key].version = item.version
         THEN {"successful", "unchanged", "failed"}
         ELSE {"failed"}

\* The answers of Target to a write request: any outcome per object for
\* the short chunks; for the long ones the first object apart, the rest
\* alike.
TargetAnswers(chunk) ==
    LET all == {"successful", "unchanged", "failed"}
        outs == IF Len(chunk) <= MaxPostedRows
                THEN [1 .. Len(chunk) -> all]
                ELSE {[i \in 1 .. Len(chunk) |-> IF i = 1 THEN a ELSE b] :
                         a \in all, b \in all}
    IN  {out \in outs : \A i \in 1 .. Len(chunk) : out[i] \in Outcomes(chunk[i])}

\* (Variant: the id of a patch is the position of the item in the list.)
ItemsToSyncByPosition(posted) ==
    [i \in 1 .. Len(posted) |->
        [id |-> i, key |-> posted[i].key, version |-> posted[i].version]]

\* The end of the pass, after the last chunk: back-sync of the posted
\* items, the Notifier fan-out on 'create', and the response.
ItemsToSync(posted) ==
    [i \in 1 .. Len(posted) |->
        [id |-> MatchRecordId(posted[i].archiveLocation)[1], key |-> posted[i].key,
         version |-> posted[i].version]]

\* (Variant: the fan-out runs whatever the operation is.)
NotifyAlways(operation, posted) == posted

\* if (operation === 'create') queueAsync(posted.map((item) => async () =>
\* webhook.execute(item.data, 'discord', 'newSubmission'))): the items the
\* Notifier is invoked for, in order.
Notify(operation, posted) == IF operation = "create" THEN posted ELSE <<>>

\* A null match throws in posted.map: the catch logs it and there is
\* neither a back-sync nor a response.
EndOfPass(operation, posted) ==
    IF posted # <<>>
    THEN IF \E i \in 1 .. Len(posted) : MatchRecordId(posted[i].archiveLocation) = <<>>
         THEN /\ UNCHANGED <<updates, dispatched, srcStarts>>
              /\ syncLast' = [NoPass EXCEPT !.done = TRUE]
         ELSE /\ UpdateTable(ItemsToSync(posted), "Videos")
              /\ syncLast' = [done |-> TRUE, status |-> 200,
                              body |-> ItemsToSync(posted),
                              notified |-> Notify(operation, posted)]
    ELSE /\ UNCHANGED <<updates, dispatched, srcStarts>>
         /\ syncLast' = [done |-> TRUE, status |-> 404, body |-> <<>>,
                         notified |-> <<>>]

\* The item Target returns for an object it was sent.
Returned(a) ==
    [archiveLocation |-> a.sent.archiveLocation, key |-> a.key, version |-> a.version]

\* (Variant: the unchanged items are kept with the successful ones.)
PostedWithUnchanged(before, answers) ==
    LET kept == SelectSeq(answers, LAMBDA a : a.outcome # "failed")
    IN  before \o [i \in 1 .. Len(kept) |-> Returned(kept[i])]

\* if (successful.length > 0) posted = [ ...posted, ...successful ]
Posted(before, answers) ==
    LET kept == SelectSeq(answers, LAMBDA a : a.outcome = "successful")
    IN  before \o [i \in 1 .. Len(kept) |-> Returned(kept[i])]

\* (Variant: the failures are added to what the file holds.)
WriteFailedAppend(failed) ==
    LET entries == [i \in 1 .. Len(failed) |->
                       [index |-> failed[i].index, key |-> failed[i].key]]
    IN  IF failed = <<>> THEN failedFile
        ELSE IF failedFile = <<>> THEN <<entries>>
             ELSE <<failedFile[1] \o entries>>

\* if (failed.length > 0) fs.writeFile('failed.json', failedItems, ..)
WriteFailed(failed) ==
    LET entries == [i \in 1 .. Len(failed) |->
                       [index |-> failed[i].index, key |-> failed[i].key]]
    IN  IF failed = <<>> THEN failedFile ELSE <<entries>>

\* (Variant: the loop does not wait for the answer of the chunk before.)
MaySendPipelined(s) == s.phase \in {"posting", "awaiting"}

\* The loop of syncItems is at `while (items.length)`: every await of the
\* turn before has returned.
MaySend(s) == s.phase = "posting"

\* postItems(items.splice(0, 50)): the next chunk of at most 50 items is
\* cut off and its write request is sent to Target.
SendChunk ==
    /\ MaySend(sync)
    /\ sync.items # <<>>
    /\ libVer < MaxWrites
    /\ LET chunk == SubSeq(sync.items, 1, Min(ChunkSize, Len(sync.items)))
           rest == SubSeq(sync.items, Len(chunk) + 1, Len(sync.items))
       IN  /\ sync' = [sync EXCEPT !.phase = "awaiting", !.items = rest,
                                   !.chunk = chunk]
           /\ tally' = [tally EXCEPT !.chunks = Append(@, chunk)]
    /\ UNCHANGED <<srcKey, srcVer, listVars, zot, libVer, updates, syncLast,
                   dispatched, upd, failedFile, colls, fmt, now, srcStarts>>

\* if (items.length > 50) await sleep(zoteroRateLimit), tested after the
\* chunk was cut off: `rest` are the items still to send.
SleepsAfterChunk(rest) == Len(rest) > ChunkSize

\* Target answered the write request of the chunk in flight: it has
\* created / updated the successful items, the failed ones are written to
\* failed.json, and the loop goes on.
PostItems ==
    /\ sync.phase = "awaiting"
    /\ LET chunk == sync.chunk
           rest == sync.items
       IN  \E out \in TargetAnswers(chunk) :
             LET ok == {i \in 1 .. Len(chunk) : out[i] = "successful"}
                 created == {i \in ok : chunk[i].key = 0}
                 newKey(i) == Len(zot) + Cardinality({j \in created : j <= i})
                 keyOf(i) == IF chunk[i].key = 0 THEN newKey(i) ELSE chunk[i].key
                 answers ==
                     [i \in 1 .. Len(chunk) |->
                         [chunk |-> Len(tally.chunks), index |-> i,
                          outcome |-> out[i], sent |-> chunk[i],
                          key |-> IF i \in ok THEN keyOf(i) ELSE chunk[i].key,
                          version |-> IF i \in ok THEN libVer + 1 ELSE chunk[i].version]]
                 failed == SelectSeq(answers, LAMBDA a : a.outcome = "failed")
                 posted == Posted(sync.posted, answers)
             IN  /\ zot' = [k \in 1 .. Len(zot) + Cardinality(created) |->
                             IF k <= Len(zot)
                             THEN IF \E i \in ok : chunk[i].key = k
                                  THEN [zot[k] EXCEPT !.version = libVer + 1]
                                  ELSE zot[k]
                             ELSE LET i == CHOOSE j \in created : newKey(j) = k
                                  IN  [recordId |-> chunk[i].archiveLocation,
                                       version |-> libVer + 1]]
                 /\ libVer' = IF ok # {} THEN libVer + 1 ELSE libVer
                 /\ failedFile' = WriteFailed(failed)
                 /\ tally' = [tally EXCEPT
                                !.answered = @ + 1,
                                !.report = @ \o answers,
                                !.totalSuccessful = @ + Cardinality(ok),
                                !.totalUnchanged =
                                    @ + Cardinality({i \in 1 .. Len(chunk) :
                                                        out[i] = "unchanged"}),
                                !.totalFailed = @ + Len(failed)]
                 /\ IF rest # <<>>
                    THEN /\ sync' = [sync EXCEPT
                                       !.phase = IF SleepsAfterChunk(rest)
                                                 THEN "sleeping" ELSE "posting",
                                       !.chunk = <<>>, !.posted = posted]
                         /\ UNCHANGED <<updates, syncLast, dispatched, srcStarts>>
                    ELSE /\ sync' = NoSync
                         /\ EndOfPass(sync.operation, posted)
    /\ UNCHANGED <<srcKey, srcVer, listVars, upd, colls, fmt, now>>

\* The write request fails in transport: postItems logs and returns
\* undefined, the destructuring in syncItems throws, the catch logs, and
\* the pass ends with no response.
PostItemsFails ==
    /\ sync.phase = "awaiting"
    /\ sync' = NoSync
    /\ syncLast' = [NoPass EXCEPT !.done = TRUE]
    /\ tally' = [tally EXCEPT !.answered = @ + 1]
    /\ UNCHANGED <<srcKey, srcVer, listVars, zot, libVer, updates, dispatched,
                   upd, failedFile, colls, fmt, now, srcStarts>>

\* sleep(zoteroRateLimit) is over: the loop goes on with the next chunk.
Sleep ==
    /\ sync.phase = "sleeping"
    /\ sync' = [sync EXCEPT !.phase = "posting"]
    /\ tally' = [tally EXCEPT !.sleeps = @ + 1]
    /\ UNCHANGED <<srcKey, srcVer, listVars, zot, libVer, updates, syncLast,
                   dispatched, upd, failedFile, colls, fmt, now, srcStarts>>

\* ------------------------------------------------------ specification
Init ==
    /\ srcKey = [r \in RecIds |-> 0]
    /\ srcVer = [r \in RecIds |-> 0]
    /\ cache = EmptyMap
    /\ clientUrl \in [Clients -> Urls]
    /\ req = Idle
    /\ last = NoRequest
    /\ missResp = EmptyMap
    /\ keyUse = EmptyMap
    /\ zot = <<>>
    /\ libVer = 0
    /\ sync = NoSync
    /\ updates = {}
    /\ syncLast = NoPass
    /\ now = 0
    /\ srcStarts = <<>>
    /\ dispatched = <<>>
    /\ upd = NoUpdate
    /\ failedFile = <<>>
    /\ colls = NoCollections
    /\ fmt = NoFormat
    /\ tally = NoTally

Next ==
    \/ \E c \in Clients : ListVideosHit(c)
    \/ \E c \in Clients : ListVideosMiss(c)
    \/ Page
    \/ FetchError

Spec == Init /\ [][Next]_vars

\* The proxy with its sync route: clients list a few records and send the
\* rows they got to syncItems.
SyncUrls ==
    {u \in Urls : /\ u.path = <<>>
                  /\ Len(u.query) = 1
                  /\ Len(ResultIds(Options(u.query))) \in 1 .. MaxSyncRows}

SyncInit == Init /\ clientUrl \in [Clients -> SyncUrls]

SyncNext ==
    \/ \E c \in Clients : ListVideosHit(c)
    \/ \E c \in Clients : ListVideosMiss(c)
    \/ Page
    \/ FetchError
    \/ \E operation \in {"create", "update"}, named \in BOOLEAN : SyncItems(operation, named)
    \/ SendChunk
    \/ PostItems
    \/ PostItemsFails
    \/ \E u \in updates : ApplyUpdate(u)
    \/ \E u \in updates : FailUpdate(u)

SyncSpec == SyncInit /\ [][SyncNext]_vars

\* Unpaged requests over a wider range of pageSize / maxRecords values:
\* page sizes that divide the table and that do not, record limits below,
\* at and above the size of the table.
PagingPageSizes == {1, 2, 3}

PagingMaxRecords == {1, 3, NumRecs, NumRecs + 2}

PagingUrls ==
    [path : {<<>>},
     query : QueriesOver({Param("pageSize", v) : v \in PagingPageSizes}
                             \cup {Param("maxRecords", v) : v \in PagingMaxRecords})]

PagingInit ==
    /\ srcKey = [r \in RecIds |-> 0]
    /\ srcVer = [r \in RecIds |-> 0]
    /\ cache = EmptyMap
    /\ clientUrl \in [Clients -> PagingUrls]
    /\ req = Idle
    /\ last = NoRequest
    /\ missResp = EmptyMap
    /\ keyUse = EmptyMap
    /\ zot = <<>>
    /\ libVer = 0
    /\ sync = NoSync
    /\ updates = {}
    /\ syncLast = NoPass
    /\ now = 0
    /\ srcStarts = <<>>
    /\ dispatched = <<>>
    /\ upd = NoUpdate
    /\ failedFile = <<>>
    /\ colls = NoCollections
    /\ fmt = NoFormat
    /\ tally = NoTally

PagingSpec == PagingInit /\ [][Next]_vars

\* The sync route on its own: an Airtable automation posts videos to /sync,
\* once.
\* Target either is empty, or holds record 1 as item 1 (version 1), its
\* token back-synced to Source, and the collection of series 1.
SeriesNames == {1}

\* Record ids of the Series table are written as negative numbers.
SeriesRefs ==
    {[series |-> 0, zoteroSeries |-> 0, seriesId |-> 0]}
        \cup {[series |-> s, zoteroSeries |-> z, seriesId |-> 0 - s] :
                 s \in SeriesNames, z \in {0, 1}}

TokensOf(recordId) == IF recordId = 1 THEN {<<0, 0>>, <<1, 1>>} ELSE {<<0, 0>>}

PostedVideo(recordId, token, ref) ==
    [recordId |-> recordId, zoteroKey |-> token[1], zoteroVersion |-> token[2],
     series |-> ref.series, zoteroSeries |-> ref.zoteroSeries,
     seriesId |-> ref.seriesId,
     presentersFirstName |-> <<"Jane">>, presentersLastName |-> <<"Doe">>,
     runningTime |-> 2722]

\* Short bodies of any videos, and long ones (around one and two chunks)
\* of new videos without a series.
BatchSizes == {ChunkSize, ChunkSize + 1, 2 * ChunkSize, 2 * ChunkSize + 1}

PostedBodies ==
    UNION {{body \in [1 .. n -> UNION {{PostedVideo(i, t, ref) :
                                           t \in TokensOf(i), ref \in SeriesRefs} :
                                       i \in 1 .. n}] :
               \A i \in 1 .. n : body[i].recordId = i} : n \in 1 .. MaxPostedRows}
        \cup {[i \in 1 .. n |-> PostedVideo(i, <<0, 0>>,
                                             [series |-> 0, zoteroSeries |-> 0,
                                              seriesId |-> 0])] : n \in BatchSizes}

PassInit ==
    /\ \E synced \in BOOLEAN :
          /\ srcKey = [r \in RecIds |-> IF synced /\ r = 1 THEN 1 ELSE 0]
          /\ srcVer = [r \in RecIds |-> IF synced /\ r = 1 THEN 1 ELSE 0]
          /\ zot = IF synced
                   THEN <<[recordId |-> ArchiveLocation(1), version |-> 1]>>
                   ELSE <<>>
          /\ libVer = IF synced THEN 1 ELSE 0
          /\ colls = IF synced THEN [NoCollections EXCEPT !.created = <<1>>]
                     ELSE NoCollections
    /\ cache = EmptyMap
    /\ clientUrl = [c \in Clients |-> [path |-> <<>>, query |-> <<>>]]
    /\ req = Idle
    /\ last = NoRequest
    /\ missResp = EmptyMap
    /\ keyUse = EmptyMap
    /\ sync = NoSync
    /\ updates = {}
    /\ syncLast = NoPass
    /\ now = 0
    /\ srcStarts = <<>>
    /\ dispatched = <<>>
    /\ upd = NoUpdate
    /\ failedFile = <<>>
    /\ fmt = NoFormat
    /\ tally = NoTally

PassNext ==
    \/ \E videos \in PostedBodies, operation \in {"create", "update"} :
          tally = NoTally /\ SyncPosted(videos, operation)
    \/ CreateCollection
    \/ \E i \in fmt.creating, created \in BOOLEAN : CollectionAnswer(i, created)
    \/ SendChunk
    \/ PostItems
    \/ PostItemsFails
    \/ Sleep
    \/ \E u \in updates : ApplyUpdate(u)
    \/ \E u \in updates : FailUpdate(u)

PassSpec == PassInit /\ [][PassNext]_vars

\* listVideos for the page sizes a client may ask for: none, 0, sizes up
\* to the default, and sizes above it.
RequestedPageSizes == {0, 1, 2, DefaultPageSize, DefaultPageSize + 1, 2 * DefaultPageSize}

PageSizeUrls ==
    [path : {<<>>},
     query : QueriesOver({Param("pageSize", v) : v \in RequestedPageSizes}
                             \cup {Param("maxRecords", v) : v \in MaxRecordsVals})]

PageSizeInit ==
    /\ srcKey = [r \in RecIds |-> 0]
    /\ srcVer = [r \in RecIds |-> 0]
    /\ cache = EmptyMap
    /\ clientUrl \in [Clients -> PageSizeUrls]
    /\ req = Idle
    /\ last = NoRequest
    /\ missResp = EmptyMap
    /\ keyUse = EmptyMap
    /\ zot = <<>>
    /\ libVer = 0
    /\ sync = NoSync
    /\ updates = {}
    /\ syncLast = NoPass
    /\ now = 0
    /\ srcStarts = <<>>
    /\ dispatched = <<>>
    /\ upd = NoUpdate
    /\ failedFile = <<>>
    /\ colls = NoCollections
    /\ fmt = NoFormat
    /\ tally = NoTally

PageSizeSpec == PageSizeInit /\ [][Next]_vars

\* formatItems over the presenters and the running time of a video: one
\* new video is posted to /sync.  First and last names may be empty
\* strings and the two arrays need not have the same length.
RECURSIVE SeqsUpTo(_, _)
SeqsUpTo(S, n) ==
    IF n = 0 THEN {<<>>}
    ELSE SeqsUpTo(S, n - 1)
             \cup {Append(q, x) : q \in {r \in SeqsUpTo(S, n - 1) : Len(r) = n - 1},
                                  x \in S}

FirstNames == {"", "Jane"}

LastNames == {"", "Doe"}

MaxPresenters == 2

\* Running times in seconds: below a minute, around the minute and the
\* hour, and the spec's examples.
Durations ==
    {0, 1, 9, 27, 59, 60, 61, 119, 120, 600, 601, 2722, 3599, 3600, 3601, 3609,
     3660, 3661, 7200, 7261, 9244, 36000, 86399}

FormatBodies ==
    {<<[PostedVideo(1, <<0, 0>>, [series |-> 0, zoteroSeries |-> 0, seriesId |-> 0])
           EXCEPT !.presentersFirstName = f, !.presentersLastName = l,
                  !.runningTime = d]>> :
        f \in SeqsUpTo(FirstNames, MaxPresenters),
        l \in SeqsUpTo(LastNames, MaxPresenters),
        d \in Durations}

FormatInit ==
    Init /\ clientUrl = [c \in Clients |-> [path |-> <<>>, query |-> <<>>]]

FormatNext ==
    \/ \E videos \in FormatBodies, operation \in {"create", "update"} :
          tally = NoTally /\ SyncPosted(videos, operation)
    \/ SendChunk
    \/ PostItems
    \/ PostItemsFails
    \/ \E u \in updates : ApplyUpdate(u)
    \/ \E u \in updates : FailUpdate(u)

FormatSpec == FormatInit /\ [][FormatNext]_vars

\* createCollection on its own, called for any name with the known parents
\* and with others.
Parents == {"series", "topics", "tags", ""}

CollectionNames == {1, 2}

CreateCollectionWith(name, parent) ==
    /\ Len(colls.calls) <= MaxCollections
    /\ colls' = CreateCollectionCall(colls, name, parent)
    /\ UNCHANGED <<srcKey, srcVer, listVars, zot, libVer, sync, updates, syncLast,
                   dispatched, upd, failedFile, fmt, tally, now, srcStarts>>

CollectionInit ==
    Init /\ clientUrl = [c \in Clients |-> [path |-> <<>>, query |-> <<>>]]

CollectionNext ==
    \E name \in CollectionNames, parent \in Parents : CreateCollectionWith(name, parent)

CollectionSpec == CollectionInit /\ [][CollectionNext]_vars

\* The update route, with listVideos requests and the clock: everything
\* that calls Source.  Clients post a short batch or one of two chunks, and
\* list the table two rows a page.
Delays == {100, MinTime}

UpdateBodies ==
    {[i \in 1 .. n |-> [id |-> i, key |-> i, version |-> 1]] :
        n \in {1, ChunkSize + 1}}

RateUrls == {[path |-> <<>>, query |-> <<Param("pageSize", 2)>>]}

UpdateInit == Init /\ clientUrl \in [Clients -> RateUrls]

UpdateNext ==
    \/ \E c \in Clients : ListVideosHit(c)
    \/ \E c \in Clients : ListVideosMiss(c)
    \/ Page
    \/ FetchError
    \/ \E body \in UpdateBodies : UpdateVideos(body)
    \/ \E u \in updates : ApplyUpdate(u)
    \/ \E u \in updates : FailUpdate(u)
    \/ \E d \in Delays : Tick(d)

UpdateSpec == UpdateInit /\ [][UpdateNext]_vars

\* ------------------------------------------------ what the claims use
\* All rows of the result of the request for url, over all its pages.
FullRows(url) == Rows(ResultIds(Options(url.query)))

\* The rows of the page with (0-based) index k of that result.
PageRowsOf(url, k) ==
    LET ps == Options(url.query).pageSize
        full == FullRows(url)
    IN  SubSeq(full, k * ps + 1, Min((k + 1) * ps, Len(full)))

\* The page requests a complete walk of the result makes.
NumPages(url) ==
    LET ps == Options(url.query).pageSize
        n == Len(FullRows(url))
    IN  IF n = 0 THEN 1 ELSE (n + ps - 1) \div ps

\* Same route, same parameter name/value pairs, possibly in another order.
SameSignature(u, v) ==
    /\ u.path = v.path
    /\ Len(u.query) = Len(v.query)
    /\ {u.query[i] : i \in 1 .. Len(u.query)} = {v.query[i] : i \in 1 .. Len(v.query)}

\* The two URLs differ in the value of exactly one parameter (a query
\* parameter or the page of the route) and in nothing else.
OneParamApart(u, v) ==
    \/ /\ u.query = v.query
       /\ u.path # <<>> /\ v.path # <<>> /\ u.path # v.path
    \/ /\ u.path = v.path
       /\ Len(u.query) = Len(v.query)
       /\ \A i \in 1 .. Len(u.query) : u.query[i].name = v.query[i].name
       /\ Cardinality({i \in 1 .. Len(u.query) : u.query[i].value # v.query[i].value}) = 1

\* The URLs that have used some cache entry so far.
UsedUrls == UNION {keyUse[k] : k \in DOMAIN keyUse}

KeyOf(u) == CHOOSE k \in DOMAIN keyUse : u \in keyUse[k]

\* The concatenation of a sequence of sequences.
RECURSIVE Flatten(_)
Flatten(seqs) == IF seqs = <<>> THEN <<>> ELSE Head(seqs) \o Flatten(Tail(seqs))

\* ceil(n / ChunkSize)
NumChunks(n) == (n + ChunkSize - 1) \div ChunkSize

\* The pass ran to its response.
Answered == syncLast.done /\ syncLast.status # 0

\* ------------------------------------------------------------ claims

\* C1: a sync pass whose input rows come from a listVideos request made
\* after a record's key and version were back-synced to Source sends that
\* record's payload with the token (an update), so the record is not
\* created in Target again.
C1_BackSyncedRecordIsUpdated ==
    \A i \in 1 .. Len(sync.items) :
        MatchRecordId(sync.items[i].archiveLocation)[1] \in sync.tokened
            => sync.items[i].key # 0

\* C2: the cache changes only in the step that ends a page walk which
\* fetched every page without error, and that step adds or replaces the
\* request's own entry and nothing else; a walk that ends with an error
\* leaves the cache exactly as it was.
C2_CacheWriteOnlyOnCleanCompletion ==
    [][ /\ (cache' # cache =>
              /\ req.phase = "fetching" /\ req'.phase = "idle"
              /\ last'.done /\ ~last'.failed /\ last'.url = req.url
              /\ last'.pages = NumPages(req.url)
              /\ DOMAIN cache' = DOMAIN cache \cup {CachePath(req.url)}
              /\ \A k \in DOMAIN cache : k # CachePath(req.url) => cache'[k] = cache[k])
        /\ (req.phase = "fetching" /\ req'.phase = "idle" /\ last'.failed =>
              cache' = cache) ]_vars

\* C2 witness: a walk failed after at least one page had been fetched and
\* accumulated, and there is no cache entry for its request.
C2_Witness ==
    /\ last.done /\ last.failed /\ last.pages >= 1
    /\ CachePath(last.url) \notin DOMAIN cache

\* C3 (as stated): after a completed walk of a request with a page index,
\* the cache entry holds the rows of all pages of the result.
C3_CacheHoldsAllPages ==
    (last.done /\ ~last.hit /\ ~last.failed /\ ParsePg(last.url.path) # <<>>)
        => cache[CachePath(last.url)] = FullRows(last.url)

\* C3 (amended): with a page index the walk still goes through every page,
\* and the entry written holds what the walk accumulated: the rows of all
\* pages for page 1, and only the rows of page k for a page k >= 2 (none
\* when the result has no page k).
C3_CacheHoldsAccumulatedRows ==
    (last.done /\ ~last.hit /\ ~last.failed /\ ParsePg(last.url.path) # <<>>)
        => /\ last.pages = NumPages(last.url)
           /\ cache[CachePath(last.url)] =
                 IF ParsePg(last.url.path)[1] = 0
                 THEN FullRows(last.url)
                 ELSE PageRowsOf(last.url, ParsePg(last.url.path)[1])

\* C3 witness: a request for page 2 of a result of three or more pages
\* completed; the walk went on after page 2 and the entry holds page 2 only.
C3_Witness ==
    /\ last.done /\ ~last.hit /\ ~last.failed
    /\ ParsePg(last.url.path) = <<1>>
    /\ last.pages >= 3
    /\ cache[CachePath(last.url)] = PageRowsOf(last.url, 1)
    /\ Len(cache[CachePath(last.url)]) < Len(FullRows(last.url))

\* C4: a repeat of a request that completed on a cache miss gives the
\* caller the same result set the caller of the first issuance got.
C4_RepeatReturnsSameResult ==
    (last.done /\ last.hit)
        => Received(last).body = missResp[CachePath(last.url)]

\* C5: a request that finds a cache entry is answered 200 with that entry
\* and makes no request to Source; page requests to Source are only ever
\* in flight for a request that found no entry.
C5_HitAnswersFromCacheOnly ==
    /\ (last.done /\ last.hit) =>
          /\ last.sent = <<Response(200, cache[CachePath(last.url)])>>
          /\ last.calls = 0
    /\ req.phase = "fetching" => CachePath(req.url) \notin DOMAIN cache

\* C5 witness: a request was answered from a non-empty cache entry.
C5_Witness ==
    /\ last.done /\ last.hit
    /\ Len(Received(last).body) > 0

\* C6 (as stated): requests with the same route and the same parameter
\* pairs in a different order use the same cache key.
C6_ReorderedParamsShareKey ==
    \A u \in UsedUrls, v \in UsedUrls :
        SameSignature(u, v) => KeyOf(u) = KeyOf(v)

\* C6 (amended): the key is the raw request URL between ".cache" and
\* ".json": requests use the same key exactly when their URLs are
\* identical, so the same parameter pairs in another order use another key.
C6_KeyIsRawUrl ==
    /\ \A k \in DOMAIN keyUse : \A u \in keyUse[k] : k = <<".cache", u, ".json">>
    /\ \A u \in UsedUrls, v \in UsedUrls :
          (SameSignature(u, v) /\ u # v) => KeyOf(u) # KeyOf(v)

\* C6 witness: both clients have made requests, with the same parameter
\* pairs in different orders, and each request has its own cache entry.
C6_Witness ==
    /\ SameSignature(clientUrl["a"], clientUrl["b"])
    /\ clientUrl["a"] # clientUrl["b"]
    /\ {clientUrl["a"], clientUrl["b"]} \subseteq UsedUrls
    /\ Cardinality(DOMAIN cache) = 2

\* C7: no cache entry is read or written by two requests whose URLs differ
\* in the value of one parameter.
C7_OneParamApartNeverShare ==
    \A k \in DOMAIN keyUse : \A u \in keyUse[k], v \in keyUse[k] :
        ~OneParamApart(u, v)

\* C7 witness: two requests one parameter value apart have both completed
\* a walk, and two cache entries were written.
C7_Witness ==
    /\ OneParamApart(clientUrl["a"], clientUrl["b"])
    /\ {clientUrl["a"], clientUrl["b"]} \subseteq UsedUrls
    /\ Cardinality(DOMAIN cache) = 2

\* C8 (as stated): the caller of a request whose page walk failed receives
\* the 400 error response.
C8_FailedWalkAnswers400 ==
    (last.done /\ last.failed) => Received(last).status = 400

\* C8 (amended): a failed page request ends the walk (no further page is
\* requested), and the caller receives 400 unless the request carried a
\* page index whose page had been delivered before the failure: that
\* caller has already received 200 with the rows sent at that page.
C8_FailedWalkAnswers400UnlessPageSent ==
    (last.done /\ last.failed) =>
        LET pgParam == ParsePg(last.url.path)
            pageSent == pgParam # <<>> /\ last.pages > pgParam[1]
        IN  /\ last.calls = last.pages + 1
            /\ last.sent # <<>>
            /\ ~pageSent => last.sent = <<Response(400, <<>>)>>
            /\ pageSent =>
                  /\ Received(last).status = 200
                  /\ Received(last).body = PageRowsOf(last.url, pgParam[1])

\* C8 witness: a walk failed after two pages and its caller got the 400.
C8_Witness ==
    /\ last.done /\ last.failed /\ last.pages >= 2
    /\ Received(last).status = 400

\* C9 (as stated): with valid createdAfter and modifiedAfter the predicate
\* sent to Source is the modification filter.
C9_ModifiedFilterWins ==
    (/\ req.phase = "fetching"
     /\ ParseDate(req.url.query, "createdAfter") # <<>>
     /\ ParseDate(req.url.query, "modifiedAfter") # <<>>)
        => Options(req.url.query).filterByFormula[1] = "Modified"

\* C9 (amended): with valid createdAfter and modifiedAfter one predicate is
\* sent to Source and it is the creation filter: every row retrieved was
\* created after createdAfter, whatever its modification time.
C9_CreatedFilterWins ==
    LET both(q) == /\ ParseDate(q, "createdAfter") # <<>>
                   /\ ParseDate(q, "modifiedAfter") # <<>>
        createdOnly(q, rows) ==
            /\ Options(q).filterByFormula = <<"Created", ParseDate(q, "createdAfter")[1]>>
            /\ \A i \in 1 .. Len(rows) :
                  Created(rows[i].recordId) > ParseDate(q, "createdAfter")[1]
    IN  /\ (req.phase = "fetching" /\ both(req.url.query))
              => createdOnly(req.url.query, req.data)
        /\ (last.done /\ both(last.url.query))
              => \A i \in 1 .. Len(last.sent) :
                     createdOnly(last.url.query, last.sent[i].body)

\* C9 witness: a request with both filters returned a row that the
\* modification filter would have excluded.
C9_Witness ==
    /\ last.done /\ ~last.failed
    /\ ParseDate(last.url.query, "createdAfter") # <<>>
    /\ ParseDate(last.url.query, "modifiedAfter") # <<>>
    /\ \E i \in 1 .. Len(Received(last).body) :
          Modified(Received(last).body[i].recordId)
              <= ParseDate(last.url.query, "modifiedAfter")[1]

\* C10: the rows the caller of a request with page index k receives are
\* exactly the rows of page k of the result.
C10_PagedRequestReturnsThatPage ==
    (/\ last.done
     /\ ParsePg(last.url.path) # <<>>
     /\ Received(last).status = 200)
        => Received(last).body = PageRowsOf(last.url, ParsePg(last.url.path)[1])

C12_SourceCallsSpaced ==
    Len(srcStarts) = 2 => srcStarts[2] - srcStarts[1] >= MinTime

C15_CollectionCreatedOncePerName ==
    \A i, j \in 1 .. Len(colls.requests) :
        colls.requests[i].name = colls.requests[j].name => i = j

\* C16: the patch with a new collection id goes to the series' own record
\* in the Series table: every update request sent to Source that carries
\* the record id of a series is a request to the table Series.
C16_SeriesPatchGoesToSeriesTable ==
    \A i \in 1 .. Len(dispatched) :
        (\E k \in 1 .. Len(dispatched[i].records) : dispatched[i].records[k].id < 0)
            => dispatched[i].table = "Series"

\* C17: the payload formatItems produces for a video carries the video's
\* (key, version) when zoteroKey and zoteroVersion are both set, and has
\* neither a key nor a version when neither is set.
C17_PayloadCarriesTokenIffSet ==
    /\ tally.items # <<>> => Len(tally.items) = Len(tally.videos)
    /\ \A i \in 1 .. Len(tally.items) :
          LET video == tally.videos[i]
              payload == tally.items[i]
          IN  /\ payload.archiveLocation = ArchiveLocation(video.recordId)
              /\ (video.zoteroKey # 0 /\ video.zoteroVersion # 0)
                    => /\ payload.key = video.zoteroKey
                       /\ payload.version = video.zoteroVersion
              /\ (video.zoteroKey = 0 /\ video.zoteroVersion = 0)
                    => /\ payload.key = 0
                       /\ payload.version = 0

\* C17 witness: a pass formatted a video that has its token and a video
\* that has none, and sent both payloads to Target.
C17_Witness ==
    /\ Len(tally.report) >= 2
    /\ \E i, j \in 1 .. Len(tally.report) :
          /\ tally.videos[i].zoteroKey = 1 /\ tally.videos[i].zoteroVersion = 1
          /\ tally.report[i].sent.key = 1 /\ tally.report[i].sent.version = 1
          /\ tally.videos[j].zoteroKey = 0 /\ tally.videos[j].zoteroVersion = 0
          /\ tally.report[j].sent.key = 0

C19_Answered200OnAnyWriteElse404 ==
    LET written == SelectSeq(tally.report, LAMBDA a : a.outcome = "successful")
    IN  syncLast.done =>
           /\ written # <<>> =>
                 /\ syncLast.status = 200
                 /\ syncLast.body =
                       [i \in 1 .. Len(written) |->
                           [id |-> written[i].sent.archiveLocation[2],
                            key |-> written[i].key,
                            version |-> written[i].version]]
           /\ syncLast.status = 404 <=> written = <<>>

\* C20: the 200 of updateVideos is sent only when every update chunk of
\* its batch has been applied to Source: none is pending, none has failed.
C20_Answered200OnlyWhenApplied ==
    (upd.done /\ upd.status = 200) =>
        \A c \in 1 .. Len(ChunksOf(upd.body)) :
            /\ ChunksOf(upd.body)[c] \notin updates
            /\ \A i \in 1 .. Len(ChunksOf(upd.body)[c]) :
                  LET patch == ChunksOf(upd.body)[c][i]
                  IN  /\ patch.id \in RecIds
                      /\ srcKey[patch.id] = patch.key
                      /\ srcVer[patch.id] = patch.version

\* C21: a delay lies between every two consecutive chunk writes of a pass:
\* when the pass has sent n chunks it has slept at least n - 1 times, once
\* after each chunk but the last one sent.
C21_DelayBetweenChunks ==
    tally.sleeps >= Len(tally.chunks) - 1

\* C22: at most one write request of a pass is in flight: the chunks sent
\* are the chunks answered, or one more, and a chunk is in flight exactly
\* while syncItems waits for postItems.
C22_OneChunkInFlight ==
    /\ Len(tally.chunks) - tally.answered \in {0, 1}
    /\ Len(tally.chunks) - tally.answered = 1 <=> sync.phase = "awaiting"
    /\ sync.phase = "awaiting" =>
          /\ sync.chunk = tally.chunks[Len(tally.chunks)]
          /\ Len(tally.report) = Len(Flatten(tally.chunks)) - Len(sync.chunk)

\* C22 witness: the second chunk of a batch is in flight, the first one
\* has been answered.
C22_Witness ==
    /\ sync.phase = "awaiting"
    /\ Len(tally.chunks) = 2
    /\ tally.answered = 1
    /\ Len(tally.report) = ChunkSize

C24_UnknownParentSendsNothing ==
    LET known == SelectSeq(colls.calls, LAMBDA c : c.parent \in {"series", "topics"})
    IN  /\ Len(colls.requests) = Len(known)
        /\ \A i \in 1 .. Len(known) :
              /\ colls.requests[i].name = known[i].name
              /\ colls.requests[i].parentCollection =
                    (IF known[i].parent = "series" THEN "HYQEFRGR" ELSE "EGB8TQZ8")

\* C24 witness: createCollection was called once for 'tags' and once for
\* 'series', and Target was sent one request.
C24_Witness ==
    /\ Len(colls.calls) = 2
    /\ colls.calls[1].parent = "tags"
    /\ colls.calls[2].parent = "series"
    /\ Len(colls.requests) = 1

\* C25 (as stated): after a sync run failed.json holds exactly the failure
\* entries of the batch of that run.
C25_FileHoldsFailuresOfLastBatch ==
    LET failed == SelectSeq(tally.report, LAMBDA a : a.outcome = "failed")
    IN  syncLast.done =>
           (IF failedFile = <<>> THEN <<>> ELSE failedFile[1])
               = [i \in 1 .. Len(failed) |->
                     [index |-> failed[i].index, key |-> failed[i].key]]

\* C25 (amended): failed.json is written by a write request whose answer
\* reports at least one failure, and by nothing else: it then holds exactly
\* the failure entries of that answer, in place of what it held.  An answer
\* without failures, a request that fails in transport and every other
\* step leave the file as it is.
C25_FileRewrittenByFailingWriteOnly ==
    [][LET news == SubSeq(tally'.report, Len(tally.report) + 1, Len(tally'.report))
           failedNow == SelectSeq(news, LAMBDA a : a.outcome = "failed")
       IN  IF Len(tally'.report) > Len(tally.report) /\ failedNow # <<>>
           THEN failedFile' = <<[i \in 1 .. Len(failedNow) |->
                                    [index |-> failedNow[i].index,
                                     key |-> failedNow[i].key]]>>
           ELSE failedFile' = failedFile]_vars

\* C25 witness: the first chunk of a batch had a failure, the second chunk
\* was answered without one, and failed.json still holds the entry of the
\* first chunk.
C25_Witness ==
    /\ tally.answered = 2
    /\ Len(tally.report) = ChunkSize + 1
    /\ tally.report[1].outcome = "failed"
    /\ tally.report[ChunkSize + 1].outcome = "successful"
    /\ tally.totalFailed = 1
    /\ failedFile = <<<<[index |-> 1, key |-> 0]>>>>

\* C26: payload.creators is a list with one creator per index of the
\* presenter arrays: {firstName, lastName} when both names are there, a
\* single name made of the one that is there when the other is missing;
\* and a list of exactly one contributor named 'Unknown' when the video
\* has no presenters.
C26_CreatorsPairedOrUnknown ==
    \A v \in 1 .. Len(tally.items) :
        LET first == tally.videos[v].presentersFirstName
            lastNames == tally.videos[v].presentersLastName
            creators == tally.items[v].creators
            lastAt(k) == IF k <= Len(lastNames) THEN lastNames[k] ELSE ""
        IN  /\ creators.isArray
            /\ (first = <<>> /\ lastNames = <<>>) =>
                  creators.value = <<[creatorType |-> "contributor", name |-> "Unknown"]>>
            /\ first # <<>> =>
                  /\ Len(creators.value) = Len(first)
                  /\ \A k \in 1 .. Len(first) :
                        /\ (first[k] # "" /\ lastAt(k) # "") =>
                              creators.value[k] =
                                 [creatorType |-> "contributor",
                                  firstName |-> first[k], lastName |-> lastAt(k)]
                        /\ (first[k] # "" /\ lastAt(k) = "") =>
                              creators.value[k] =
                                 [creatorType |-> "contributor", name |-> first[k]]
                        /\ (first[k] = "" /\ lastAt(k) # "") =>
                              creators.value[k] =
                                 [creatorType |-> "contributor", name |-> lastAt(k)]

\* C30: payload.runningTime is h:mm:ss for a running time of an hour or
\* more and m:ss below, for every running time in whole seconds.
C30_DurationIsHmmssOrMss ==
    \A v \in 1 .. Len(tally.items) :
        LET duration == tally.videos[v].runningTime
            hours == duration \div 3600
            minutes == (duration % 3600) \div 60
            seconds == duration % 60
            two(n) == IF n < 10 THEN "0" \o ToString(n) ELSE ToString(n)
        IN  tally.items[v].runningTime =
               IF duration >= 3600
               THEN ToString(hours) \o ":" \o two(minutes) \o ":" \o two(seconds)
               ELSE ToString(minutes) \o ":" \o two(seconds)

\* C27: a sync request whose handler has ended has been sent a response,
\* 200 or 404, also when a write request to Target failed in transport or
\* when a written item's location holds no record id.
C27_EveryPassAnswered ==
    syncLast.done => syncLast.status \in {200, 404}

\* C28: a listVideos request is sent at most one response, over all of its
\* page callbacks and the done callback, with or without an error.
C28_AtMostOneResponse ==
    /\ Len(req.sent) <= 1
    /\ last.done => Len(last.sent) <= 1

\* C29: the page size of the request listVideos makes to Source is between
\* 1 and 100, whatever pageSize the client gave: none, 0, or more than 100.
C29_PageSizeInRange ==
    req.phase = "fetching" =>
        Options(req.url.query).pageSize \in 1 .. DefaultPageSize

====
